---- MODULE Spec2Model ----
(***************************************************************************)
(* A model of the verb-form correction scripts of Lane's lexicon:          *)
(*   scripts/fix_aorists.py     (Form I aorists)                           *)
(*   scripts/fix_verb_forms.py  (Forms II-XIII)                            *)
(*                                                                         *)
(* Text is a sequence of characters.  A character is written by name       *)
(* ("ba", "fatha", ...); CodePoint gives its Unicode code point, which is  *)
(* what the scripts' range tests compare.                                  *)
(***************************************************************************)
EXTENDS Integers, Sequences, FiniteSets, TLC

VARIABLES
    \* harness of the pure functions (generation, inference, extraction)
    gpc, form_num, root_letters, pattern, result, raw_text, clean_root,
    \* one scan/apply pass over a document held in memory
    script, xml_content, entries, fixed_content, fixes_made, k, pc, rescan,
    \* main() and process_file(): the files and the loop over them
    apply_fixes, all_files, fs, fs0, idx, fpc, success_count, outcome

genVars == <<gpc, form_num, root_letters, pattern, result, raw_text, clean_root>>
docVars == <<script, xml_content, entries, fixed_content, fixes_made, k, pc, rescan>>
fileVars == <<apply_fixes, all_files, fs, fs0, idx, fpc, success_count, outcome>>
vars == <<gpc, form_num, root_letters, pattern, result, raw_text, clean_root,
          script, xml_content, entries, fixed_content, fixes_made, k, pc, rescan,
          apply_fixes, all_files, fs, fs0, idx, fpc, success_count, outcome>>

----------------------------------------------------------------------------
(* Characters *)

\* Python's None
None == <<"None">>

CodePoint ==
    [ alif_hamza |-> 1571, alif |-> 1575, ba |-> 1576, ta |-> 1578, tha |-> 1579,
      jim |-> 1580, dal |-> 1583, dhal |-> 1584, ra |-> 1585, zay |-> 1586,
      sin |-> 1587, shin |-> 1588, sad |-> 1589, dad |-> 1590, tah |-> 1591,
      zah |-> 1592, ayn |-> 1593, kaf |-> 1603, lam |-> 1604, mim |-> 1605,
      nun |-> 1606, waw |-> 1608, ya |-> 1610,
      tanween_fath |-> 1611, tanween_damm |-> 1612, tanween_kasr |-> 1613,
      fatha |-> 1614, damma |-> 1615, kasra |-> 1616, shadda |-> 1617,
      sukun |-> 1618, hamza_above |-> 1620, hamza_below |-> 1621,
      sp |-> 32, x |-> 120 ]

\* ARABIC_DIACRITICS.values() of fix_aorists.py: eight marks
AoristDiacritics ==
    {"fatha", "damma", "kasra", "sukun", "shadda",
     "tanween_fath", "tanween_damm", "tanween_kasr"}

\* ARABIC_DIACRITICS.values() of fix_verb_forms.py: ten marks
VerbDiacritics ==
    {"fatha", "damma", "kasra", "sukun", "shadda",
     "tanween_fath", "tanween_damm", "tanween_kasr",
     "hamza_above", "hamza_below"}

\* ARABIC_DIACRITICS of the script that runs
Diacritics(s) == IF s = "fix_aorists" THEN AoristDiacritics ELSE VerbDiacritics

\* '؀' <= char <= 'ۿ'
InArabicBlock(c) == 1536 <= CodePoint[c] /\ CodePoint[c] <= 1791

\* ''.join(char for char in text if <keep>)
RECURSIVE Filter(_, _)
Filter(text, keep) ==
    IF text = <<>> THEN <<>>
    ELSE (IF Head(text) \in keep THEN <<Head(text)>> ELSE <<>>)
         \o Filter(Tail(text), keep)

\* str.isspace for the characters of the model
IsSpace(c) == c = "sp"

\* str.strip()
RECURSIVE LStrip(_)
LStrip(text) ==
    IF text # <<>> /\ IsSpace(Head(text)) THEN LStrip(Tail(text)) ELSE text

RECURSIVE RStrip(_)
RStrip(text) ==
    IF text # <<>> /\ IsSpace(text[Len(text)])
    THEN RStrip(SubSeq(text, 1, Len(text) - 1)) ELSE text

Strip(text) == RStrip(LStrip(text))

\* the text without the first of its characters that is in marks
RECURSIVE WithoutFirst(_, _)
WithoutFirst(text, marks) ==
    IF text = <<>> THEN <<>>
    ELSE IF Head(text) \in marks THEN Tail(text)
    ELSE <<Head(text)>> \o WithoutFirst(Tail(text), marks)

\* remove_diacritics that removes one diacritic only
remove_diacritics_FirstOnly(s, text) ==
    WithoutFirst(text, IF s = "fix_aorists"
                       THEN {"fatha", "damma", "kasra", "sukun", "shadda",
                             "tanween_fath", "tanween_damm", "tanween_kasr"}
                       ELSE {"fatha", "damma", "kasra", "sukun", "shadda",
                             "tanween_fath", "tanween_damm", "tanween_kasr",
                             "hamza_above", "hamza_below"})

\* remove_diacritics(text) of script s
remove_diacritics(s, text) ==
    Filter(text, {c \in DOMAIN CodePoint : c \notin Diacritics(s)})

\* get_root_letters(root_text) of script s
get_root_letters(s, root_text) ==
    Filter(remove_diacritics(s, Strip(root_text)),
           {c \in DOMAIN CodePoint : InArabicBlock(c)})

----------------------------------------------------------------------------
(* Forms II-XIII: fix_verb_forms.py *)

\* the keys of VERB_FORMS
VERB_FORMS == 2 .. 13

\* the local list assimilating_letters
assimilating_letters ==
    {"ta", "tha", "jim", "dal", "dhal", "zay", "sin", "shin", "sad", "dad", "tah", "zah"}

\* root_letters[0] + root_letters[1] + root_letters[2]
FirstThree(r) == <<r[1], r[2], r[3]>>

\* apply_assimilation_rules with a Form VIII branch that assimilates the first
\* radical to the infixed ta
apply_assimilation_rules_FormVIII(n, r) ==
    IF Len(r) < 3 THEN r
    ELSE IF n \in {5, 6} /\ r[1] \in assimilating_letters THEN FirstThree(r)
    ELSE IF n = 7 /\ r[1] = "nun" THEN <<"nun", r[2], r[3]>>
    ELSE IF n = 7 /\ r[1] = "mim" THEN <<"mim", r[2], r[3]>>
    ELSE IF n = 8 /\ r[1] \in assimilating_letters THEN <<"ta", r[2], r[3]>>
    ELSE r

\* apply_assimilation_rules with a Form VII branch that writes the nun of the
\* prefix in the place of a first radical mim
apply_assimilation_rules_NunForMim(n, r) ==
    IF Len(r) < 3 THEN r
    ELSE IF n \in {5, 6} /\ r[1] \in assimilating_letters THEN FirstThree(r)
    ELSE IF n = 7 /\ r[1] = "nun" THEN <<"nun", r[2], r[3]>>
    ELSE IF n = 7 /\ r[1] = "mim" THEN <<"nun", r[2], r[3]>>
    ELSE IF n = 8 /\ r[1] = "ta" THEN FirstThree(r)
    ELSE IF n = 8 /\ r[1] \in (assimilating_letters \ {"ta"}) THEN FirstThree(r)
    ELSE r

apply_assimilation_rules(n, r) ==
    IF Len(r) < 3 THEN r
    ELSE IF n \in {5, 6} /\ r[1] \in assimilating_letters THEN FirstThree(r)
    ELSE IF n = 7 /\ r[1] = "nun" THEN <<"nun", r[2], r[3]>>
    ELSE IF n = 7 /\ r[1] = "mim" THEN <<"mim", r[2], r[3]>>
    ELSE IF n = 8 /\ r[1] = "ta" THEN FirstThree(r)
    ELSE IF n = 8 /\ r[1] \in (assimilating_letters \ {"ta"}) THEN FirstThree(r)
    ELSE r

\* the test of the Form V and Form VI branches:
\* apply_assimilation_rules(n, root_letters) != root_letters
AssimilationApplies(n, r) == apply_assimilation_rules(n, r) # r

\* the Form V branch taken when the test holds, and the one taken otherwise
FormV(assim, f, a, l) ==
    IF assim
    THEN <<"alif", "kasra", f, "shadda", "fatha", a, "shadda", "fatha", l, "fatha">>
    ELSE <<"ta", "fatha", f, "fatha", a, "shadda", "fatha", l, "fatha">>

FormVI(assim, f, a, l) ==
    IF assim
    THEN <<"alif", "kasra", f, "shadda", "fatha", "alif", a, "fatha", l, "fatha">>
    ELSE <<"ta", "fatha", f, "fatha", "alif", a, "fatha", l, "fatha">>

\* FormVII with the branch decided by the assimilating set of Forms V and VI
FormVII_BySet(f, a, l) ==
    IF f \in assimilating_letters \cup {"nun", "mim"}
    THEN <<"alif", "kasra", f, "shadda", "fatha", a, "fatha", l, "fatha">>
    ELSE <<"alif", "kasra", "nun", "sukun", f, "fatha", a, "fatha", l, "fatha">>

FormVII(f, a, l) ==
    IF f = "nun"
    THEN <<"alif", "kasra", "nun", "shadda", "fatha", a, "fatha", l, "fatha">>
    ELSE IF f = "mim"
    THEN <<"alif", "kasra", "mim", "shadda", "fatha", a, "fatha", l, "fatha">>
    ELSE <<"alif", "kasra", "nun", "sukun", f, "fatha", a, "fatha", l, "fatha">>

generate_verb_form(n, r) ==
    IF n \notin VERB_FORMS \/ Len(r) < 3 THEN None
    ELSE LET adjusted_root == apply_assimilation_rules(n, r)
             f == adjusted_root[1]
             a == adjusted_root[2]
             l == adjusted_root[3]
         IN CASE n = 2 -> <<f, "fatha", a, "shadda", "fatha", l, "fatha">>
              [] n = 3 -> <<f, "fatha", "alif", a, "fatha", l, "fatha">>
              [] n = 4 -> <<"alif_hamza", "fatha", f, "sukun", a, "fatha", l, "fatha">>
              [] n = 5 -> FormV(AssimilationApplies(5, r), f, a, l)
              [] n = 6 -> FormVI(AssimilationApplies(6, r), f, a, l)
              [] n = 7 -> FormVII(f, a, l)
              [] n = 8 -> <<"alif", "kasra", f, "sukun", "ta", "fatha", a, "fatha", l, "fatha">>
              [] n = 9 -> <<"alif", "kasra", f, "sukun", a, "fatha", l, "shadda", "fatha">>
              [] n = 10 -> <<"alif", "kasra", "sin", "sukun", "ta", "fatha",
                             f, "sukun", a, "fatha", l, "fatha">>
              [] n = 11 -> <<"alif", "kasra", f, "sukun", a, "fatha", "alif",
                             l, "shadda", "fatha">>
              [] n = 12 -> <<"alif", "kasra", f, "sukun", a, "fatha", "waw", "sukun",
                             a, "fatha", l, "fatha">>
              [] n = 13 -> <<"alif", "kasra", f, "sukun", a, "fatha", "waw", "shadda",
                             "fatha", l, "fatha">>
              [] OTHER -> None

----------------------------------------------------------------------------
(* Form I: fix_aorists.py *)

\* the literal 'يَ' (ya, fatha)
YaFatha == <<"ya", "fatha">>

\* a startswith that finds no prefix
StartsWith_Never(text, prefix) == FALSE

\* str.startswith
StartsWith(text, prefix) ==
    Len(text) >= Len(prefix) /\ SubSeq(text, 1, Len(prefix)) = prefix

\* extract_diacritic_from_letter that returns the first of the four marks in
\* the order of the text
RECURSIVE extract_diacritic_FirstInText(_)
extract_diacritic_FirstInText(unit) ==
    IF unit = <<>> THEN "None"
    ELSE IF Head(unit) \in {"fatha", "kasra", "damma", "sukun"} THEN Head(unit)
    ELSE extract_diacritic_FirstInText(Tail(unit))

extract_diacritic_from_letter(unit) ==
    LET marks == {unit[i] : i \in 1 .. Len(unit)}
    IN IF "fatha" \in marks THEN "fatha"
       ELSE IF "kasra" \in marks THEN "kasra"
       ELSE IF "damma" \in marks THEN "damma"
       ELSE IF "sukun" \in marks THEN "sukun"
       ELSE "None"

\* the loop that splits clean_aorist into letters with their diacritics:
\* acc is the list letters, cur the pending current_letter
RECURSIVE SplitLetters(_, _, _)
SplitLetters(text, acc, cur) ==
    IF text = <<>> THEN (IF cur # <<>> THEN Append(acc, cur) ELSE acc)
    ELSE IF InArabicBlock(Head(text)) /\ Head(text) \notin AoristDiacritics
         THEN SplitLetters(Tail(text),
                           IF cur # <<>> THEN Append(acc, cur) ELSE acc,
                           <<Head(text)>>)
         ELSE SplitLetters(Tail(text), acc, Append(cur, Head(text)))

analyze_current_aorist_for_intended_pattern(current_aorist) ==
    IF Len(current_aorist) < 4 THEN "damma"
    ELSE LET clean_aorist == IF StartsWith(current_aorist, YaFatha)
                             THEN SubSeq(current_aorist, 3, Len(current_aorist))
                             ELSE current_aorist
             letters == SplitLetters(clean_aorist, <<>>, <<>>)
         IN IF Len(letters) < 2 THEN "damma"
            ELSE LET d == extract_diacritic_from_letter(letters[2])
                 IN IF d \in {"damma", "kasra", "fatha"} THEN d ELSE "damma"

\* generate_correct_aorist that accepts a root of two letters
generate_correct_aorist_Biliteral(r, intended_vowel_pattern) ==
    IF Len(r) < 2 THEN None
    ELSE YaFatha \o <<r[1], "sukun", r[2], intended_vowel_pattern>>
         \o (IF Len(r) >= 3 THEN <<r[3], "damma">> ELSE <<>>)

\* generate_correct_aorist with a short root filled up by its last letter
generate_correct_aorist_Padded(r, intended_vowel_pattern) ==
    IF r = <<>> THEN None
    ELSE LET last == r[Len(r)]
             second == IF Len(r) >= 2 THEN r[2] ELSE last
             third == IF Len(r) >= 3 THEN r[3] ELSE last
         IN YaFatha \o <<r[1], "sukun", second, intended_vowel_pattern, third, "damma">>

\* generate_correct_aorist with the second vowel fixed to the default
generate_correct_aorist_DefaultVowel(r, intended_vowel_pattern) ==
    IF Len(r) < 3 THEN None
    ELSE YaFatha \o <<r[1], "sukun", r[2], "damma", r[3], "damma">>

generate_correct_aorist(r, intended_vowel_pattern) ==
    IF Len(r) < 3 THEN None
    ELSE LET second_vowel == IF intended_vowel_pattern \in {"damma", "kasra", "fatha"}
                             THEN intended_vowel_pattern ELSE "damma"
         IN YaFatha \o <<r[1], "sukun", r[2], second_vowel, r[3], "damma">>

----------------------------------------------------------------------------
(* Documents                                                               *)
(*                                                                         *)
(* The scripts read the document with regular expressions.  A document is  *)
(* modelled as the sequence of its div2 sections, a section as its type    *)
(* attribute, the text of its first <head><foreign lang="ar"> element      *)
(* (<<>> when it has none) and the occurrences in it, in text order.  An   *)
(* occurrence stands for the text                                          *)
(*   tag "aor":   aor. <form n="infl"> <orth orig=.. lang="ar">val</orth></form> *)
(*   tag "itype": <itype>mark</itype> <orth lang="ar">val</orth></form>    *)
(* where mark is the shape of the orth element ("orig": orig="Ba",         *)
(* "empty": orig="", "empty_attr": orig="" with a further attribute) or    *)
(* the digits of the form number.  Two occurrences are the same text       *)
(* exactly when they are equal.  The values use no character of the        *)
(* markup.                                                                 *)
(***************************************************************************)

\* int(verb_match.group(1)) brought into the range of the keys of VERB_FORMS
ItypeInt_Clamped ==
    ("0" :> 2) @@ ("1" :> 2) @@ ("2" :> 2) @@ ("3" :> 3) @@ ("4" :> 4) @@
    ("5" :> 5) @@ ("6" :> 6) @@ ("7" :> 7) @@ ("8" :> 8) @@ ("9" :> 9) @@
    ("10" :> 10) @@ ("11" :> 11) @@ ("12" :> 12) @@ ("13" :> 13) @@ ("14" :> 13)

\* int(verb_match.group(1))
ItypeInt ==
    ("0" :> 0) @@ ("1" :> 1) @@ ("2" :> 2) @@ ("3" :> 3) @@ ("4" :> 4) @@
    ("5" :> 5) @@ ("6" :> 6) @@ ("7" :> 7) @@ ("8" :> 8) @@ ("9" :> 9) @@
    ("10" :> 10) @@ ("11" :> 11) @@ ("12" :> 12) @@ ("13" :> 13) @@ ("14" :> 14)

\* root_pattern: <div2 type="root"[^>]*>.*?</div2>
IsRootSection(section) == section.type = "root"

\* head_match: <head><foreign lang="ar">([^<]+)</foreign></head>
HasHead(section) == section.head # <<>>

\* aorist_pattern1: <orth orig="[^"]*"\s+lang="ar">([^<]*)</orth></form>
aorist_pattern1(tok) == tok.tag = "aor" /\ tok.mark \in {"orig", "empty"}

\* aorist_pattern2: <orth orig=""\s+[^>]*lang="ar">([^<]*)</orth></form>
aorist_pattern2(tok) == tok.tag = "aor" /\ tok.mark \in {"empty", "empty_attr"}

\* verb_pattern: <itype>(\d+)</itype>\s*\n\s*<orth lang="ar">([^<]+)</orth></form>
verb_pattern(tok) ==
    tok.tag = "itype" /\ tok.mark \in DOMAIN ItypeInt /\ Len(tok.val) >= 1

\* the dictionary appended to entries; span is the place of the match in the
\* document (section, occurrence), which the scripts do not record
Entry(root_text, letters, n, current, correct, intended, tok, i, j) ==
    [root_text |-> root_text, root_letters |-> letters, form_number |-> n,
     current |-> current, correct |-> correct, intended_pattern |-> intended,
     full_match |-> tok, span |-> <<i, j>>]

\* one pass of "for aorist_match in aorist_matches" over section i, from
\* occurrence j on, for the pattern p (1 or 2)
RECURSIVE AoristMatches(_, _, _, _, _, _)
AoristMatches(p, body, root_text, letters, i, j) ==
    IF j > Len(body) THEN <<>>
    ELSE LET tok == body[j]
             matched == IF p = 1 THEN aorist_pattern1(tok) ELSE aorist_pattern2(tok)
             current_aorist == Strip(tok.val)
             intended == analyze_current_aorist_for_intended_pattern(current_aorist)
             correct_aorist == generate_correct_aorist(letters, intended)
             found == IF matched /\ ~StartsWith(current_aorist, YaFatha)
                         /\ correct_aorist # None /\ current_aorist # correct_aorist
                      THEN <<Entry(root_text, letters, 1, current_aorist,
                                   correct_aorist, intended, tok, i, j)>>
                      ELSE <<>>
         IN found \o AoristMatches(p, body, root_text, letters, i, j + 1)

\* "for verb_match in verb_matches" over section i, from occurrence j on
RECURSIVE VerbMatches(_, _, _, _, _)
VerbMatches(body, root_text, letters, i, j) ==
    IF j > Len(body) THEN <<>>
    ELSE LET tok == body[j]
             n == ItypeInt[tok.mark]
             current_form == Strip(tok.val)
             correct_form == generate_verb_form(n, letters)
             found == IF verb_pattern(tok) /\ n # 1
                         /\ correct_form # None /\ current_form # correct_form
                      THEN <<Entry(root_text, letters, n, current_form,
                                   correct_form, "", tok, i, j)>>
                      ELSE <<>>
         IN found \o VerbMatches(body, root_text, letters, i, j + 1)

\* SectionEntries with the second pattern of fix_aorists.py tried before the
\* first
SectionEntries_Pattern2First(s, doc, i) ==
    LET section == doc[i]
        root_text == section.head
        letters == get_root_letters(s, root_text)
    IN IF ~IsRootSection(section) \/ ~HasHead(section) THEN <<>>
       ELSE IF s = "fix_aorists"
       THEN AoristMatches(2, section.body, root_text, letters, i, 1)
            \o AoristMatches(1, section.body, root_text, letters, i, 1)
       ELSE IF Len(letters) < 3 THEN <<>>
       ELSE VerbMatches(section.body, root_text, letters, i, 1)

\* the body of "for section in root_sections" of script s, for section i
SectionEntries(s, doc, i) ==
    LET section == doc[i]
        root_text == section.head
        letters == get_root_letters(s, root_text)
    IN IF ~IsRootSection(section) \/ ~HasHead(section) THEN <<>>
       ELSE IF s = "fix_aorists"
       THEN AoristMatches(1, section.body, root_text, letters, i, 1)
            \o AoristMatches(2, section.body, root_text, letters, i, 1)
       ELSE IF Len(letters) < 3 THEN <<>>
       ELSE VerbMatches(section.body, root_text, letters, i, 1)

RECURSIVE EntriesFrom(_, _, _)
EntriesFrom(s, doc, i) ==
    IF i > Len(doc) THEN <<>>
    ELSE SectionEntries(s, doc, i) \o EntriesFrom(s, doc, i + 1)

\* find_root_entries_with_diacritic_analysis (fix_aorists.py) and
\* find_verb_form_entries (fix_verb_forms.py)
find_entries(s, xml) == EntriesFrom(s, xml, 1)

\* str.replace(old, new) for a non-empty old
RECURSIVE ReplaceAll(_, _, _)
ReplaceAll(text, old, new) ==
    IF Len(text) < Len(old) THEN text
    ELSE IF SubSeq(text, 1, Len(old)) = old
    THEN new \o ReplaceAll(SubSeq(text, Len(old) + 1, Len(text)), old, new)
    ELSE <<Head(text)>> \o ReplaceAll(Tail(text), old, new)

\* str.replace('', new): new before every character and at the end
RECURSIVE Interleave(_, _)
Interleave(text, new) ==
    IF text = <<>> THEN new
    ELSE new \o <<Head(text)>> \o Interleave(Tail(text), new)

\* new_form = entry['full_match'].replace(current, correct).  An empty current
\* puts the correct form between all characters of the match, its markup
\* included: the result is no occurrence any more (tag "text")
new_form(e) ==
    IF e.current = <<>>
    THEN [tag |-> "text", mark |-> e.full_match.mark,
          val |-> Interleave(e.full_match.val, e.correct)]
    ELSE [e.full_match EXCEPT !.val = ReplaceAll(@, e.current, e.correct)]

\* re.sub(re.escape(entry['full_match']), new_form, text) on one occurrence
SubOccurrence(tok, e) == IF tok = e.full_match THEN new_form(e) ELSE tok

\* re.sub(old_pattern, new_form, fixed_content): every place of the document
\* that holds the text of the match
ReSub(content, e) ==
    [i \in 1 .. Len(content) |->
        [content[i] EXCEPT !.body =
            [j \in 1 .. Len(content[i].body) |-> SubOccurrence(content[i].body[j], e)]]]

\* the loop "for entry in entries" of apply_verb_form_fixes and
\* fix_aorists_in_content, from entry n on
RECURSIVE ApplyFrom(_, _, _)
ApplyFrom(content, es, n) ==
    IF n > Len(es) THEN content
    ELSE ApplyFrom(ReSub(content, es[n]), es, n + 1)

\* apply_verb_form_fixes(xml_content, entries) / fix_aorists_in_content:
\* (fixed_content, fixes_made)
apply_fixes_to(content, es) == <<ApplyFrom(content, es, 1), Len(es)>>

----------------------------------------------------------------------------
(* The documents the model reads *)

\* the number of div2 sections of a document, and of occurrences in it
MaxSections == 2
MaxOcc == 2

Scripts == {"fix_aorists", "fix_verb_forms"}

\* root texts of <head><foreign lang="ar">: two roots of three letters
\* (b-t-r, k-t-b) and a text with two letters
RootA == <<"ba", "fatha", "ta", "fatha", "ra", "fatha">>
RootB == <<"kaf", "fatha", "ta", "fatha", "ba", "fatha">>
RootShort == <<"ba", "fatha", "ta", "fatha">>

SectionHeads ==
    {[type |-> "other", head |-> <<>>], [type |-> "root", head |-> <<>>],
     [type |-> "root", head |-> RootA], [type |-> "root", head |-> RootB],
     [type |-> "root", head |-> RootShort]}

Occ(tag, mark, val) == [tag |-> tag, mark |-> mark, val |-> val]

\* Forms II-XIII occurrences: a form without diacritics, the correct Form II
\* of b-t-r, Form I and Form 14 markers, a form with blanks around it
VerbOccurrences ==
    {Occ("itype", "2", <<"ba", "ta", "ra">>),
     Occ("itype", "2", generate_verb_form(2, <<"ba", "ta", "ra">>)),
     Occ("itype", "1", <<"ba", "ta", "ra">>),
     Occ("itype", "14", <<"ba", "ta", "ra">>),
     Occ("itype", "7", <<"sp", "ba", "ta", "ra", "sp">>)}

\* Form I occurrences: a perfect-shaped form in each of the three shapes of
\* the orth element, a form that has the prefix already, a form with a blank
\* before it and a kasra on its second letter, an orth element that holds a
\* blank only
AoristOccurrences ==
    {Occ("aor", "orig", <<"ba", "fatha", "ta", "damma", "ra", "fatha">>),
     Occ("aor", "empty", <<"ba", "fatha", "ta", "damma", "ra", "fatha">>),
     Occ("aor", "empty_attr", <<"ba", "fatha", "ta", "damma", "ra", "fatha">>),
     Occ("aor", "orig", generate_correct_aorist(<<"ba", "ta", "ra">>, "damma")),
     Occ("aor", "orig", <<"sp", "ba", "fatha", "ta", "kasra", "ra", "fatha">>),
     Occ("aor", "orig", <<"sp">>)}

Occurrences(s) == IF s = "fix_aorists" THEN AoristOccurrences ELSE VerbOccurrences

\* the sections with m occurrences
SectionsOf(s, m) ==
    {[type |-> h.type, head |-> h.head, body |-> b] :
        h \in SectionHeads, b \in [1 .. m -> Occurrences(s)]}

\* the documents of at most ns sections with at most no occurrences in all;
\* a section without occurrences is left out, nothing is found or changed in it
RECURSIVE DocumentsOf(_, _, _)
DocumentsOf(s, ns, no) ==
    IF ns = 0 \/ no = 0 THEN {<<>>}
    ELSE {<<>>} \cup
         UNION {{<<sec>> \o d : sec \in SectionsOf(s, m),
                                d \in DocumentsOf(s, ns - 1, no - m)} : m \in 1 .. no}

Documents(s) == DocumentsOf(s, MaxSections, MaxOcc)

----------------------------------------------------------------------------
(* One pass over a document in memory: scan, apply, and a scan of the      *)
(* result.                                                                 *)

GenIdle ==
    /\ gpc = "idle" /\ form_num = 0 /\ root_letters = <<>>
    /\ pattern = "" /\ result = <<>>
    /\ raw_text = <<>> /\ clean_root = <<>>

FileIdle ==
    /\ apply_fixes = FALSE /\ all_files = <<>> /\ fs = <<>> /\ fs0 = <<>> /\ idx = 0
    /\ fpc = "idle" /\ success_count = 0 /\ outcome = <<>>

DocInit ==
    /\ GenIdle /\ FileIdle
    /\ script \in Scripts
    /\ xml_content \in Documents(script)
    /\ entries = <<>> /\ fixed_content = <<>> /\ fixes_made = 0 /\ k = 0
    /\ rescan = <<>>
    /\ pc = "find"

\* entries = find_...(xml_content); fixed_content = xml_content; fixes_made = 0
FindEntries ==
    /\ pc = "find"
    /\ entries' = find_entries(script, xml_content)
    /\ fixed_content' = xml_content
    /\ fixes_made' = 0
    /\ k' = 1
    /\ pc' = "fix"
    /\ UNCHANGED <<script, xml_content, rescan>>
    /\ UNCHANGED genVars /\ UNCHANGED fileVars

\* one iteration of "for entry in entries"
FixEntry ==
    /\ pc = "fix" /\ k <= Len(entries)
    /\ fixed_content' = ReSub(fixed_content, entries[k])
    /\ fixes_made' = fixes_made + 1
    /\ k' = k + 1
    /\ UNCHANGED <<script, xml_content, entries, pc, rescan>>
    /\ UNCHANGED genVars /\ UNCHANGED fileVars

\* return fixed_content, fixes_made
FixReturn ==
    /\ pc = "fix" /\ k > Len(entries)
    /\ pc' = "fixed"
    /\ UNCHANGED <<script, xml_content, entries, fixed_content, fixes_made, k, rescan>>
    /\ UNCHANGED genVars /\ UNCHANGED fileVars

\* the scan of a second run, on the text the first run produced
Rescan ==
    /\ pc = "fixed"
    /\ rescan' = find_entries(script, fixed_content)
    /\ pc' = "rescanned"
    /\ UNCHANGED <<script, xml_content, entries, fixed_content, fixes_made, k>>
    /\ UNCHANGED genVars /\ UNCHANGED fileVars

DocNext == FindEntries \/ FixEntry \/ FixReturn \/ Rescan

SpecDoc == DocInit /\ [][DocNext]_vars

----------------------------------------------------------------------------
(* The generators called on their own                                      *)

\* the longest root-letter string tried
MaxRootLen == 4

\* first letters: the twelve assimilating letters, nun, mim and two others;
\* further letters: an assimilating letter, nun and one other
FirstLetters == assimilating_letters \cup {"nun", "mim", "kaf", "ba"}
OtherLetters == {"ta", "nun", "ra"}

\* the strings get_root_letters can return, up to MaxRootLen letters
RootLetterStrings ==
    {<<>>} \cup
    {<<f>> \o t : f \in FirstLetters,
                  t \in UNION {[1 .. m -> OtherLetters] : m \in 0 .. (MaxRootLen - 1)}}

\* form numbers tried: 0 and 14 are outside VERB_FORMS
FormNumbers == 0 .. 14

\* the values analyze_current_aorist_for_intended_pattern returns
Patterns == {"damma", "kasra", "fatha"}

DocIdle ==
    /\ script = "" /\ xml_content = <<>> /\ entries = <<>> /\ fixed_content = <<>>
    /\ fixes_made = 0 /\ k = 0 /\ pc = "idle" /\ rescan = <<>>

GenInit ==
    /\ DocIdle /\ FileIdle
    /\ gpc = "call"
    /\ form_num \in FormNumbers
    /\ root_letters \in RootLetterStrings
    /\ pattern = ""
    /\ result = <<>>
    /\ raw_text = <<>> /\ clean_root = <<>>

\* correct_form = generate_verb_form(form_num, root_letters)
GenerateVerbForm ==
    /\ gpc = "call"
    /\ result' = generate_verb_form(form_num, root_letters)
    /\ gpc' = "verb_form"
    /\ UNCHANGED <<form_num, root_letters, pattern, raw_text, clean_root>>
    /\ UNCHANGED docVars /\ UNCHANGED fileVars

\* correct_aorist = generate_correct_aorist(root_letters, intended_vowel_pattern)
GenerateAorist ==
    /\ gpc = "call"
    /\ \E p \in Patterns :
        /\ pattern' = p
        /\ result' = generate_correct_aorist(root_letters, p)
    /\ gpc' = "aorist"
    /\ UNCHANGED <<form_num, root_letters, raw_text, clean_root>>
    /\ UNCHANGED docVars /\ UNCHANGED fileVars

\* adjusted_root = apply_assimilation_rules(form_num, root_letters)
AdjustRoot ==
    /\ gpc = "call"
    /\ result' = apply_assimilation_rules(form_num, root_letters)
    /\ gpc' = "assimilated"
    /\ UNCHANGED <<form_num, root_letters, pattern, raw_text, clean_root>>
    /\ UNCHANGED docVars /\ UNCHANGED fileVars

GenNext == GenerateVerbForm \/ GenerateAorist \/ AdjustRoot

SpecGen == GenInit /\ [][GenNext]_vars

----------------------------------------------------------------------------
(* Inference and root extraction called on their own                       *)

\* the longest text tried
MaxTextLen == 4

\* the characters of the texts: two letters, the four marks that
\* extract_diacritic_from_letter knows, a mark that only fix_verb_forms.py
\* lists as a diacritic, and a blank
TextAlphabet == {"ya", "ba", "fatha", "kasra", "damma", "sukun", "hamza_above", "sp"}

Texts == UNION {[1 .. m -> TextAlphabet] : m \in 0 .. MaxTextLen}

TextInit ==
    /\ DocIdle /\ FileIdle
    /\ gpc = "call"
    /\ form_num = 0 /\ root_letters = <<>> /\ pattern = "" /\ result = <<>>
    /\ raw_text \in Texts
    /\ clean_root = <<>>

\* intended_vowel_pattern = analyze_current_aorist_for_intended_pattern(current_aorist)
AnalyzeAorist ==
    /\ gpc = "call"
    /\ pattern' = analyze_current_aorist_for_intended_pattern(raw_text)
    /\ gpc' = "analyzed"
    /\ UNCHANGED <<form_num, root_letters, result, raw_text, clean_root>>
    /\ UNCHANGED docVars /\ UNCHANGED fileVars

\* root_letters = get_root_letters(root_text), in either script; clean_root
\* is the local of that name
ExtractRoot ==
    /\ gpc = "call"
    /\ \E s \in Scripts :
        /\ script' = s
        /\ clean_root' = remove_diacritics(s, Strip(raw_text))
        /\ root_letters' = get_root_letters(s, raw_text)
    /\ gpc' = "root"
    /\ UNCHANGED <<form_num, pattern, result, raw_text>>
    /\ UNCHANGED <<xml_content, entries, fixed_content, fixes_made, k, pc, rescan>>
    /\ UNCHANGED fileVars

\* second_radical_diacritic = extract_diacritic_from_letter(letters[1]), for
\* the text as the letter with its diacritics
ClassifyUnit ==
    /\ gpc = "call"
    /\ pattern' = extract_diacritic_from_letter(raw_text)
    /\ gpc' = "classified"
    /\ UNCHANGED <<form_num, root_letters, result, raw_text, clean_root>>
    /\ UNCHANGED docVars /\ UNCHANGED fileVars

TextNext == AnalyzeAorist \/ ExtractRoot \/ ClassifyUnit

SpecText == TextInit /\ [][TextNext]_vars

----------------------------------------------------------------------------
(* main() and process_file()                                               *)
(*                                                                         *)
(* A path is its directory, the characters of its stem and its suffix.  fs *)
(* maps each path to the file there: none, a document, or a preview        *)
(* report.  fs0 is fs as it was when main() started.                       *)

\* the most file arguments on the command line
MaxFiles == 2

Path(dir, stem, ext) == [dir |-> dir, stem |-> stem, ext |-> ext]

InputPaths ==
    {Path("lan", <<"u", "a", "0">>, ".xml"), Path("lan", <<"e", "n", "t", "r", "y">>, ".xml")}

\* preview_file with the report written to the input path
preview_file_InPlace(s, input_path) == input_path

\* preview_file of process_file:
\*   fix_aorists:    input_path.parent / f"aorist_preview_{input_path.stem}.txt"
\*   fix_verb_forms: Path("references") / f"verb_form_preview_{suffix}.txt", suffix
\*                   stem[1:3] for a stem of three characters that starts with u
preview_file(s, input_path) ==
    IF s = "fix_aorists"
    THEN Path(input_path.dir, <<"aorist_preview_">> \o input_path.stem, ".txt")
    ELSE LET stem == input_path.stem
             suffix == IF Len(stem) = 3 /\ stem[1] = "u" THEN SubSeq(stem, 2, 3) ELSE stem
         IN Path("references", <<"verb_form_preview_">> \o suffix, ".txt")

AllPaths(s) == InputPaths \cup {preview_file(s, p) : p \in InputPaths}

NoFile == [kind |-> "none"]
XmlFile(text) == [kind |-> "xml", text |-> text]

\* the keys of pattern_groups (in the order of first use) and of form_groups
\* (sorted)
RECURSIVE KeysInOrder(_, _)
KeysInOrder(keys, seen) ==
    IF keys = <<>> THEN <<>>
    ELSE IF Head(keys) \in seen THEN KeysInOrder(Tail(keys), seen)
    ELSE <<Head(keys)>> \o KeysInOrder(Tail(keys), seen \cup {Head(keys)})

RECURSIVE SortedKeys(_)
SortedKeys(keys) ==
    IF keys = {} THEN <<>>
    ELSE LET m == CHOOSE x \in keys : \A y \in keys : x <= y
         IN <<m>> \o SortedKeys(keys \ {m})

\* the number of entries written for the first g of the lists
RECURSIVE WrittenBefore(_, _)
WrittenBefore(lists, g) ==
    IF g = 0 THEN 0 ELSE WrittenBefore(lists, g - 1) + Len(lists[g])

\* entry numbers that start again at 1 in every group
EntryNumbers_PerGroup(lists, g) == [m \in 1 .. Len(lists[g]) |-> m]

\* the values of entry_num written with the entries of group g: entry_num
\* starts at 1 before the first group and grows by one with every entry
EntryNumbers(lists, g) ==
    [m \in 1 .. Len(lists[g]) |-> WrittenBefore(lists, g - 1) + m]

\* generate_preview_report: the file it writes, as the total, the groups in
\* the order they are written with the entries of each and their numbers,
\* and the counts of the distribution summary
generate_preview_report(s, es) ==
    LET keyOf(e) == IF s = "fix_aorists" THEN e.intended_pattern ELSE e.form_number
        keys == IF s = "fix_aorists"
                THEN KeysInOrder([n \in 1 .. Len(es) |-> keyOf(es[n])], {})
                ELSE SortedKeys({keyOf(es[n]) : n \in 1 .. Len(es)})
        lists == [g \in 1 .. Len(keys) |-> SelectSeq(es, LAMBDA e : keyOf(e) = keys[g])]
    IN [kind |-> "report", total |-> Len(es),
        groups |-> [g \in 1 .. Len(keys) |->
                      [key |-> keys[g],
                       members |-> lists[g],
                       numbers |-> EntryNumbers(lists, g)]],
        distribution |-> [g \in 1 .. Len(keys) |->
                            [key |-> keys[g], count |-> Len(lists[g])]]]

\* the documents the files hold: one with a candidate in each of two root
\* sections, one without candidates, one with three candidates of two groups
\* and a text that is no document
\* a text that is no well-formed document: a root div2 that is never closed,
\* which root_pattern does not match
Unclosed(occurrence) ==
    <<[type |-> "unclosed", head |-> RootA, body |-> <<occurrence>>]>>

FileDocuments(s) ==
    IF s = "fix_aorists"
    THEN {Unclosed(Occ("aor", "orig", <<"ba", "fatha", "ta", "damma", "ra", "fatha">>)),
          <<[type |-> "root", head |-> RootA,
             body |-> <<Occ("aor", "empty", <<"ba", "fatha", "ta", "damma", "ra", "fatha">>),
                        Occ("aor", "orig", <<"sp", "ba", "fatha", "ta", "kasra", "ra", "fatha">>)>>]>>,
          <<[type |-> "root", head |-> RootA,
             body |-> <<Occ("aor", "orig", <<"ba", "fatha", "ta", "damma", "ra", "fatha">>)>>],
            [type |-> "root", head |-> RootB,
             body |-> <<Occ("aor", "orig", <<"sp", "ba", "fatha", "ta", "kasra", "ra", "fatha">>)>>]>>,
          <<[type |-> "root", head |-> RootA,
             body |-> <<Occ("aor", "orig", generate_correct_aorist(<<"ba", "ta", "ra">>, "damma"))>>]>>}
    ELSE {Unclosed(Occ("itype", "2", <<"ba", "ta", "ra">>)),
          <<[type |-> "root", head |-> RootA,
             body |-> <<Occ("itype", "7", <<"sp", "ba", "ta", "ra", "sp">>),
                        Occ("itype", "2", <<"ba", "ta", "ra">>)>>],
            [type |-> "root", head |-> RootB,
             body |-> <<Occ("itype", "7", <<"sp", "ba", "ta", "ra", "sp">>)>>]>>,
          <<[type |-> "root", head |-> RootA,
             body |-> <<Occ("itype", "2", <<"ba", "ta", "ra">>)>>],
            [type |-> "root", head |-> RootB,
             body |-> <<Occ("itype", "7", <<"sp", "ba", "ta", "ra", "sp">>)>>]>>,
          <<[type |-> "root", head |-> RootA,
             body |-> <<Occ("itype", "2", generate_verb_form(2, <<"ba", "ta", "ra">>))>>]>>}

\* the command lines: one to MaxFiles different files
FileLists ==
    {a \in UNION {[1 .. n -> InputPaths] : n \in 1 .. MaxFiles} :
        \A i, j \in 1 .. Len(a) : i # j => a[i] # a[j]}

FileInit ==
    /\ GenIdle
    /\ script \in Scripts
    /\ apply_fixes \in BOOLEAN
    /\ all_files \in FileLists
    /\ fs \in {f \in [AllPaths(script) ->
                        {NoFile} \cup {XmlFile(d) : d \in FileDocuments(script)}] :
                  \A p \in AllPaths(script) \ InputPaths : f[p] = NoFile}
    /\ fs0 = fs
    /\ idx = 1
    /\ fpc = "call"
    /\ success_count = 0
    /\ outcome = [i \in 1 .. Len(all_files) |-> "none"]
    /\ xml_content = <<>> /\ entries = <<>> /\ fixed_content = <<>>
    /\ fixes_made = 0 /\ k = 0 /\ pc = "idle" /\ rescan = <<>>

\* the file process_file is called for
input_path == all_files[idx]

\* process_file returns ok (TRUE) or not
Return(ok) ==
    /\ outcome' = [outcome EXCEPT ![idx] = IF ok THEN "ok" ELSE "failed"]
    /\ fpc' = "returned"

\* if not input_path.exists(): print error, return False
FileMissing ==
    /\ fpc = "call" /\ fs[input_path] = NoFile
    /\ Return(FALSE)
    /\ UNCHANGED <<apply_fixes, all_files, fs, fs0, idx, success_count>>
    /\ UNCHANGED docVars /\ UNCHANGED genVars

\* xml_content = f.read()
ReadFile ==
    /\ fpc = "call" /\ fs[input_path].kind = "xml"
    /\ xml_content' = fs[input_path].text
    /\ fpc' = "read"
    /\ UNCHANGED <<apply_fixes, all_files, fs, fs0, idx, success_count, outcome>>
    /\ UNCHANGED <<script, entries, fixed_content, fixes_made, k, pc, rescan>>
    /\ UNCHANGED genVars

\* open(input_path, 'r') or f.read() raises: except Exception, return False
ReadFault ==
    /\ fpc = "call" /\ fs[input_path].kind = "xml"
    /\ Return(FALSE)
    /\ UNCHANGED <<apply_fixes, all_files, fs, fs0, idx, success_count>>
    /\ UNCHANGED docVars /\ UNCHANGED genVars

\* entries = find_...(xml_content)
ScanFile ==
    /\ fpc = "read"
    /\ entries' = find_entries(script, xml_content)
    /\ fpc' = "scanned"
    /\ UNCHANGED <<apply_fixes, all_files, fs, fs0, idx, success_count, outcome>>
    /\ UNCHANGED <<script, xml_content, fixed_content, fixes_made, k, pc, rescan>>
    /\ UNCHANGED genVars

\* not apply_fixes: generate_preview_report(entries, preview_file, input_path)
Preview ==
    /\ fpc = "scanned" /\ ~apply_fixes
    /\ fs' = [fs EXCEPT ![preview_file(script, input_path)] =
                            generate_preview_report(script, entries)]
    /\ Return(TRUE)
    /\ UNCHANGED <<apply_fixes, all_files, fs0, idx, success_count>>
    /\ UNCHANGED docVars /\ UNCHANGED genVars

\* the preview file cannot be opened: except Exception, return False
PreviewFault ==
    /\ fpc = "scanned" /\ ~apply_fixes
    /\ Return(FALSE)
    /\ UNCHANGED <<apply_fixes, all_files, fs, fs0, idx, success_count>>
    /\ UNCHANGED docVars /\ UNCHANGED genVars

\* apply_fixes: fixed_content, fixes_made = apply_verb_form_fixes(xml_content, entries)
\* (fix_aorists_in_content scans xml_content again itself)
ApplyFixes ==
    /\ fpc = "scanned" /\ apply_fixes
    /\ LET r == apply_fixes_to(xml_content, find_entries(script, xml_content))
       IN fixed_content' = r[1] /\ fixes_made' = r[2]
    /\ fpc' = "applied"
    /\ UNCHANGED <<apply_fixes, all_files, fs, fs0, idx, success_count, outcome>>
    /\ UNCHANGED <<script, xml_content, entries, k, pc, rescan>>
    /\ UNCHANGED genVars

\* open(input_path, 'w'): the file is truncated
OpenForWrite ==
    /\ fpc = "applied"
    /\ fs' = [fs EXCEPT ![input_path] = XmlFile(<<>>)]
    /\ fpc' = "opened"
    /\ UNCHANGED <<apply_fixes, all_files, fs0, idx, success_count, outcome>>
    /\ UNCHANGED docVars /\ UNCHANGED genVars

\* open(input_path, 'w') raises: except Exception, return False
OpenFault ==
    /\ fpc = "applied"
    /\ Return(FALSE)
    /\ UNCHANGED <<apply_fixes, all_files, fs, fs0, idx, success_count>>
    /\ UNCHANGED docVars /\ UNCHANGED genVars

\* f.write(fixed_content) and the close of the file
WriteFile ==
    /\ fpc = "opened"
    /\ fs' = [fs EXCEPT ![input_path] = XmlFile(fixed_content)]
    /\ Return(TRUE)
    /\ UNCHANGED <<apply_fixes, all_files, fs0, idx, success_count>>
    /\ UNCHANGED docVars /\ UNCHANGED genVars

\* f.write or the close raises after part of the text was written (none of
\* it, or the text up to some section): except Exception, return False
WriteFault ==
    /\ fpc = "opened"
    /\ \E n \in 0 .. (Len(fixed_content) - 1) :
        fs' = [fs EXCEPT ![input_path] = XmlFile(SubSeq(fixed_content, 1, n))]
    /\ Return(FALSE)
    /\ UNCHANGED <<apply_fixes, all_files, fs0, idx, success_count>>
    /\ UNCHANGED docVars /\ UNCHANGED genVars

\* MainContinues with a loop that ends at the first file that failed
MainContinues_StopOnFailure(s, i, n, ok) == s = "fix_aorists" /\ i < n /\ ok

\* whether main() calls process_file again after the call for file i of n:
\* fix_aorists loops over all_files whatever process_file returned,
\* fix_verb_forms processes sys.argv[1] only
MainContinues(s, i, n, ok) == s = "fix_aorists" /\ i < n

\* main(): back from process_file
AfterFile ==
    /\ fpc = "returned"
    /\ success_count' = IF outcome[idx] = "ok" THEN success_count + 1 ELSE success_count
    /\ IF MainContinues(script, idx, Len(all_files), outcome[idx] = "ok")
       THEN idx' = idx + 1 /\ fpc' = "call"
       ELSE idx' = idx /\ fpc' = "exit"
    /\ UNCHANGED <<apply_fixes, all_files, fs, fs0, outcome>>
    /\ UNCHANGED docVars /\ UNCHANGED genVars

Init == FileInit

Next ==
    \/ FileMissing \/ ReadFile \/ ReadFault \/ ScanFile
    \/ Preview \/ PreviewFault
    \/ ApplyFixes \/ OpenForWrite \/ OpenFault \/ WriteFile \/ WriteFault
    \/ AfterFile

Spec == Init /\ [][Next]_vars

----------------------------------------------------------------------------
(* Claims about scan and apply *)

\* the occurrence at a span of a document
OccAt(content, span) == content[span[1]].body[span[2]]

\* the spans of the candidates
Spans == {entries[n].span : n \in 1 .. Len(entries)}

\* the occurrence is the match of candidate e with the form text replaced by
\* e's generated text
HoldsGenerated(tok, e) ==
    /\ tok.tag = e.full_match.tag
    /\ tok.mark = e.full_match.mark
    /\ Strip(tok.val) = e.correct

Applied == pc \in {"fixed", "rescanned"}

\* C1: after apply, the matched span of every candidate holds that
\* candidate's own generated text.
C1_SpanHoldsOwnGenerated ==
    Applied =>
        \A n \in 1 .. Len(entries) :
            HoldsGenerated(OccAt(fixed_content, entries[n].span), entries[n])

\* C2: after apply, every place of the document outside the matched spans of
\* the candidates is as it was.
C2_Locality ==
    Applied =>
        /\ Len(fixed_content) = Len(xml_content)
        /\ \A i \in 1 .. Len(xml_content) :
            /\ fixed_content[i].type = xml_content[i].type
            /\ fixed_content[i].head = xml_content[i].head
            /\ Len(fixed_content[i].body) = Len(xml_content[i].body)
            /\ \A j \in 1 .. Len(xml_content[i].body) :
                <<i, j>> \notin Spans =>
                    fixed_content[i].body[j] = xml_content[i].body[j]

\* C3: during apply, a span that holds its candidate's generated text is not
\* rewritten by a later candidate of the list.
C3_NoLaterRewrite ==
    [][\A n \in 1 .. Len(entries) :
          (/\ pc = "fix" /\ n < k
           /\ HoldsGenerated(OccAt(fixed_content, entries[n].span), entries[n]))
          => OccAt(fixed_content', entries[n].span)
                = OccAt(fixed_content, entries[n].span)]_vars

\* C4: a scan of the text that apply produced yields no candidate, in both
\* families.
C4_Idempotent == pc = "rescanned" => rescan = <<>>

----------------------------------------------------------------------------
(* Claims about generation *)

\* the twelve consonants of the assimilating set, as the specification lists them
TwelveConsonants ==
    {"ta", "tha", "jim", "dal", "dhal", "zay", "sin", "shin", "sad", "dad", "tah", "zah"}

\* the 'alif-kasra + doubled-r1' template and the ta-prefixed template
UsesDoubledR1(text, r1) == StartsWith(text, <<"alif", "kasra", r1, "shadda", "fatha">>)
UsesTaPrefix(text, r1) == StartsWith(text, <<"ta", "fatha", r1, "fatha">>)

\* C9: for every root of three or more letters, Forms V and VI use the
\* 'alif-kasra + doubled-r1' template if and only if r1 is one of the twelve
\* assimilating consonants, and the ta-prefixed template otherwise.
C9_FormsVandVIBranch ==
    (gpc = "verb_form" /\ form_num \in {5, 6} /\ Len(root_letters) >= 3) =>
        IF root_letters[1] \in TwelveConsonants
        THEN UsesDoubledR1(result, root_letters[1])
        ELSE UsesTaPrefix(result, root_letters[1])

\* C10: for every root of three or more letters, Form VII is the doubled-nun
\* template when r1 is nun, the doubled-mim template when r1 is mim, and the
\* generic template for every other r1, in the assimilating set or not.
C10_FormVIIBranch ==
    (gpc = "verb_form" /\ form_num = 7 /\ Len(root_letters) >= 3) =>
        LET r1 == root_letters[1]
            r2 == root_letters[2]
            r3 == root_letters[3]
        IN result =
            CASE r1 = "nun" ->
                    <<"alif", "kasra", "nun", "shadda", "fatha", r2, "fatha", r3, "fatha">>
              [] r1 = "mim" ->
                    <<"alif", "kasra", "mim", "shadda", "fatha", r2, "fatha", r3, "fatha">>
              [] OTHER ->
                    <<"alif", "kasra", "nun", "sukun", r1, "fatha", r2, "fatha", r3, "fatha">>

\* a Form VII of a root that begins with nun, a further letter of which is in
\* the assimilating set, has been generated
C10_Witness ==
    /\ gpc = "verb_form" /\ form_num = 7
    /\ root_letters = <<"nun", "ta", "ra">>
    /\ result = <<"alif", "kasra", "nun", "shadda", "fatha", "ta", "fatha", "ra", "fatha">>

----------------------------------------------------------------------------
(* Claims about process_file and main *)

Files == 1 .. Len(all_files)

\* C6: in apply mode, a file whose processing failed (a fault at some step)
\* holds its original content.
C6_AtomicOnFault ==
    apply_fixes =>
        \A i \in Files : outcome[i] = "failed" => fs[all_files[i]] = fs0[all_files[i]]

\* C7: when main() has ended, every file given has been processed and its
\* outcome reported, whatever the outcomes of the files before it.
C7_EveryFileProcessed ==
    fpc = "exit" => \A i \in Files : outcome[i] \in {"ok", "failed"}

\* C7 (amended): this holds of fix_aorists.py; fix_verb_forms.py processes its
\* first file argument only and reports that file's outcome.
C7_BatchIndependence ==
    fpc = "exit" =>
        /\ script = "fix_aorists" =>
            /\ \A i \in Files : outcome[i] \in {"ok", "failed"}
            /\ success_count = Cardinality({i \in Files : outcome[i] = "ok"})
        /\ script = "fix_verb_forms" =>
            /\ outcome[1] \in {"ok", "failed"}
            /\ \A i \in Files \ {1} : outcome[i] = "none"

\* fix_aorists.py has ended; its first file failed and its second succeeded
C7_Witness ==
    /\ fpc = "exit" /\ script = "fix_aorists"
    /\ Len(all_files) >= 2
    /\ outcome[1] = "failed" /\ outcome[2] = "ok"
    /\ success_count = 1

\* C8: without the apply flag, no step of process_file changes the input
\* file; the only file written is the preview report, which is another file.
C8_PreviewDoesNotMutate ==
    [][(~apply_fixes /\ fpc \in {"call", "read", "scanned"}) =>
          /\ fs'[input_path] = fs[input_path]
          /\ \A p \in DOMAIN fs :
                p # preview_file(script, input_path) => fs'[p] = fs[p]]_vars

\* a preview run has returned: candidates were found, the report is written
\* and the input file is as it was
C8_Witness ==
    /\ ~apply_fixes /\ fpc = "returned" /\ outcome[idx] = "ok"
    /\ entries # <<>>
    /\ fs[preview_file(script, input_path)].kind = "report"
    /\ fs[input_path] = fs0[input_path]

----------------------------------------------------------------------------
(* Claims about Form I generation, short roots and skipped occurrences *)

\* C11: for every root of three or more letters and every pattern, the
\* generated Form I text is the eight characters ya, fatha, r1, sukun, r2,
\* the pattern's diacritic, r3, damma.
C11_FormIGeneration ==
    (gpc = "aorist" /\ Len(root_letters) >= 3) =>
        /\ Len(result) = 8
        /\ result[1] = "ya" /\ result[2] = "fatha"
        /\ result[3] = root_letters[1] /\ result[4] = "sukun"
        /\ result[5] = root_letters[2] /\ result[6] = pattern
        /\ result[7] = root_letters[3] /\ result[8] = "damma"

\* a Form I with kasra has been generated from a root of four letters
C11_Witness ==
    /\ gpc = "aorist" /\ pattern = "kasra"
    /\ root_letters = <<"kaf", "ta", "ra", "nun">>
    /\ result = <<"ya", "fatha", "kaf", "sukun", "ta", "kasra", "ra", "damma">>

\* the sections of the document that are root scopes with a root text
RootScopes ==
    {i \in 1 .. Len(xml_content) :
        xml_content[i].type = "root" /\ xml_content[i].head # <<>>}

\* the candidates found in section i
CandidatesIn(i) == {n \in 1 .. Len(entries) : entries[n].span[1] = i}

Scanned == pc \in {"fix", "fixed", "rescanned"}

\* C12: for a root scope whose root text yields fewer than three letters,
\* generation returns none for every form number 1 to 13 and every pattern,
\* and the scan emits no candidate for any occurrence of the scope.
C12_ShortRootNoOp ==
    \A i \in RootScopes :
        LET letters == get_root_letters(script, xml_content[i].head)
        IN Len(letters) < 3 =>
            /\ \A n \in 1 .. 13 : generate_verb_form(n, letters) = None
            /\ \A p \in {"damma", "kasra", "fatha"} :
                    generate_correct_aorist(letters, p) = None
            /\ Scanned => CandidatesIn(i) = {}

\* the Form I scan has run over a document in which a root scope of two
\* letters holds a non-prefixed occurrence
C12_Witness ==
    /\ Scanned /\ script = "fix_aorists"
    /\ \E i \in RootScopes :
        /\ Len(get_root_letters(script, xml_content[i].head)) = 2
        /\ \E j \in 1 .. Len(xml_content[i].body) :
              xml_content[i].body[j].val = <<"ba", "fatha", "ta", "damma", "ra", "fatha">>
        /\ CandidatesIn(i) = {}

\* the text begins with the subject prefix, ya + fatha
HasSubjectPrefix(current) ==
    Len(current) >= 2 /\ current[1] = "ya" /\ current[2] = "fatha"

\* the text generation gives for the occurrence j of the root scope i
GeneratedFor(i, j) ==
    LET tok == xml_content[i].body[j]
        letters == get_root_letters(script, xml_content[i].head)
    IN IF tok.tag = "aor"
       THEN generate_correct_aorist(
                letters, analyze_current_aorist_for_intended_pattern(Strip(tok.val)))
       ELSE generate_verb_form(ItypeInt[tok.mark], letters)

\* C13: a Form I occurrence whose current text begins with ya + fatha yields
\* no candidate and is never changed by apply, whatever follows the prefix;
\* an occurrence of either family whose current text equals the generated
\* text yields no candidate and is not counted as a fix.
C13_AlreadyCanonical ==
    Scanned =>
        /\ \A i \in 1 .. Len(xml_content) : \A j \in 1 .. Len(xml_content[i].body) :
              LET tok == xml_content[i].body[j]
              IN (tok.tag = "aor" /\ HasSubjectPrefix(Strip(tok.val))) =>
                    /\ <<i, j>> \notin Spans
                    /\ OccAt(fixed_content, <<i, j>>) = tok
        /\ \A i \in RootScopes : \A j \in 1 .. Len(xml_content[i].body) :
              Strip(xml_content[i].body[j].val) = GeneratedFor(i, j) =>
                    /\ <<i, j>> \notin Spans
                    /\ Applied => fixes_made = Len(entries)

\* apply has run over a root scope of k-t-b that holds a prefixed form of
\* another root and an occurrence that was corrected
C13_Witness ==
    /\ Applied /\ script = "fix_aorists" /\ fixes_made >= 1
    /\ \E i \in RootScopes : \E j \in 1 .. Len(xml_content[i].body) :
        /\ xml_content[i].head = <<"kaf", "fatha", "ta", "fatha", "ba", "fatha">>
        /\ xml_content[i].body[j].val =
              <<"ya", "fatha", "ba", "sukun", "ta", "damma", "ra", "damma">>
        /\ CandidatesIn(i) # {}
        /\ fixed_content[i].body[j] = xml_content[i].body[j]

----------------------------------------------------------------------------
(* Claims about texts that cannot be parsed *)

\* the text of the file is not a well-formed document
Malformed(file) ==
    file.kind = "xml" /\ \E i \in 1 .. Len(file.text) : file.text[i].type = "unclosed"

\* C14: when the text of a file cannot be parsed into root scopes and
\* occurrences, process_file reports failure for it and the file is as it
\* was.
C14_ParseFailureFails ==
    \A i \in Files :
        (Malformed(fs0[all_files[i]]) /\ outcome[i] # "none") =>
            /\ outcome[i] = "failed"
            /\ fs[all_files[i]] = fs0[all_files[i]]

----------------------------------------------------------------------------
(* Claims about form numbers *)

\* the form numbers 2 to 13 as they are written in the document
SupportedMarks == {"2", "3", "4", "5", "6", "7", "8", "9", "10", "11", "12", "13"}

\* C15: in the Forms II-XIII scan an occurrence whose form number is 1 or
\* lies outside 2..13 yields no candidate, and generation returns none for
\* every form number outside 2..13.
C15_UnsupportedForm ==
    /\ Scanned =>
          \A i \in 1 .. Len(xml_content) : \A j \in 1 .. Len(xml_content[i].body) :
              LET tok == xml_content[i].body[j]
              IN (tok.tag = "itype" /\ tok.mark \notin SupportedMarks) =>
                    <<i, j>> \notin Spans
    /\ \A i \in RootScopes : \A n \in {0, 1, 14} :
          generate_verb_form(n, get_root_letters(script, xml_content[i].head)) = None

\* the Forms II-XIII scan has run over a root scope of b-t-r that holds an
\* occurrence of form 14 and an occurrence of form 2; only the second is a
\* candidate
C15_Witness ==
    /\ Scanned /\ script = "fix_verb_forms"
    /\ \E i \in RootScopes :
        /\ Len(get_root_letters(script, xml_content[i].head)) = 3
        /\ Len(xml_content[i].body) = 2
        /\ xml_content[i].body[1].mark = "14"
        /\ xml_content[i].body[2].mark = "2"
        /\ {entries[n].span : n \in CandidatesIn(i)} = {<<i, 2>>}

----------------------------------------------------------------------------
(* Claims about inference, extraction and stripping *)

\* the ten marks of the DiacriticMark set
TenMarks ==
    {"fatha", "damma", "kasra", "sukun", "shadda",
     "tanween_fath", "tanween_damm", "tanween_kasr", "hamza_above", "hamza_below"}

\* a base letter: a character of the Arabic block that is no mark
BaseLetter(c) == InArabicBlock(c) /\ c \notin TenMarks

\* the text without a leading ya + fatha
Unprefixed(current) ==
    IF HasSubjectPrefix(current) THEN SubSeq(current, 3, Len(current)) ELSE current

\* the places where the letter-units of the text begin
UnitStarts(rest) == {i \in 1 .. Len(rest) : BaseLetter(rest[i])}

\* the characters of the second letter-unit: from the second base letter up
\* to the next one
SecondUnit(rest) ==
    LET starts == UnitStarts(rest)
        first == CHOOSE i \in starts : \A j \in starts : i <= j
        second == CHOOSE i \in starts \ {first} : \A j \in starts \ {first} : i <= j
        later == {i \in starts : i > second}
        last == IF later = {} THEN Len(rest)
                ELSE (CHOOSE i \in later : \A j \in later : i <= j) - 1
    IN {rest[i] : i \in second .. last}

\* the vowel read from the second letter-unit, damma when there is none
InferFromSecondUnit(current) ==
    LET rest == Unprefixed(current)
    IN IF Cardinality(UnitStarts(rest)) < 2 THEN "damma"
       ELSE LET unit == SecondUnit(rest)
            IN IF "fatha" \in unit THEN "fatha"
               ELSE IF "kasra" \in unit THEN "kasra"
               ELSE "damma"

\* C16: inference returns the vowel of the second letter-unit of the text
\* without its ya + fatha prefix, and damma when that unit has sukun or no
\* vowel or when there are fewer than two units, whatever the length of the
\* text.
C16_InferSecondUnit ==
    gpc = "analyzed" => pattern = InferFromSecondUnit(raw_text)

----------------------------------------------------------------------------
(* Claims about the candidates of a scan *)

\* the candidates whose match is the occurrence j of section i
CandidatesAt(i, j) == {n \in 1 .. Len(entries) : entries[n].span = <<i, j>>}

\* C17: in the Form I scan a root scope with a valid root and exactly one
\* occurrence, whose current text is not prefixed, yields exactly one
\* candidate, in either shape of the occurrence; no occurrence is reported
\* twice.
C17_OneCandidatePerOccurrence ==
    (Scanned /\ script = "fix_aorists") =>
        /\ \A i \in RootScopes :
              (/\ Len(get_root_letters(script, xml_content[i].head)) >= 3
               /\ Len(xml_content[i].body) = 1
               /\ xml_content[i].body[1].tag = "aor"
               /\ ~HasSubjectPrefix(Strip(xml_content[i].body[1].val)))
              => Cardinality(CandidatesIn(i)) = 1
        /\ \A i \in 1 .. Len(xml_content) : \A j \in 1 .. Len(xml_content[i].body) :
              Cardinality(CandidatesAt(i, j)) <= 1

\* C18: every candidate of a scan has at least three root letters and a
\* generated text that is not none and differs from its current text, in
\* both families.
C18_CandidateInvariant ==
    Scanned =>
        \A n \in 1 .. Len(entries) :
            /\ Len(entries[n].root_letters) >= 3
            /\ entries[n].correct # <<"None">>
            /\ entries[n].correct # entries[n].current

\* a scan has found candidates in two root scopes of different roots
C18_Witness ==
    /\ Scanned /\ Len(entries) = 2
    /\ entries[1].root_letters = <<"ba", "ta", "ra">>
    /\ entries[2].root_letters = <<"kaf", "ta", "ba">>

----------------------------------------------------------------------------
(* Claims about root extraction and stripping *)

\* the base letters of the text, in order
BaseLetters(root_text) == Filter(root_text, {c \in DOMAIN CodePoint : BaseLetter(c)})

\* C19: for a root text with at least three base letters, extraction returns
\* exactly the first three of them.
C19_ExtractFirstThree ==
    (gpc = "root" /\ Len(BaseLetters(raw_text)) >= 3) =>
        root_letters = SubSeq(BaseLetters(raw_text), 1, 3)

\* C20: in both scripts the stripped text holds none of the ten marks, and
\* both scripts extract the same root letters from the same root text.
C20_StripRemovesAllMarks ==
    gpc = "root" =>
        /\ \A i \in 1 .. Len(clean_root) : clean_root[i] \notin TenMarks
        /\ get_root_letters("fix_aorists", raw_text)
              = get_root_letters("fix_verb_forms", raw_text)

----------------------------------------------------------------------------
(* Claims about classification and the totality of inference *)

\* the place of a mark in the priority order fatha, kasra, damma, sukun
Priority == [fatha |-> 1, kasra |-> 2, damma |-> 3, sukun |-> 4]

\* the marks of the four that occur in the text
MarksIn(unit) == {unit[i] : i \in 1 .. Len(unit)} \cap DOMAIN Priority

\* C21: classification returns the mark of a letter-unit that comes first in
\* the order fatha, kasra, damma, sukun, wherever the marks stand in the
\* unit, and none when the unit has none of the four.
C21_ClassifyPriority ==
    gpc = "classified" =>
        IF MarksIn(raw_text) = {} THEN pattern = "None"
        ELSE /\ pattern \in MarksIn(raw_text)
             /\ \A m \in MarksIn(raw_text) : Priority[pattern] <= Priority[m]

\* a unit that carries sukun, damma and kasra in this order has been
\* classified as kasra
C21_Witness ==
    /\ gpc = "classified"
    /\ raw_text = <<"ba", "sukun", "damma", "kasra">>
    /\ pattern = "kasra"

\* C22: for every text inference returns damma, kasra or fatha, and damma
\* for a text that has no letter-unit once the ya + fatha prefix is taken
\* off.
C22_InferenceTotal ==
    gpc = "analyzed" =>
        /\ pattern \in {"damma", "kasra", "fatha"}
        /\ UnitStarts(Unprefixed(raw_text)) = {} => pattern = "damma"

----------------------------------------------------------------------------
(* Claims about Form VIII and the assimilation rules *)

\* C23: for every root of three or more letters, whatever its first letter,
\* Form VIII is the generic template alif + kasra, r1 + sukun, ta + fatha,
\* r2 + fatha, r3 + fatha.
C23_FormVIIIGeneric ==
    (gpc = "verb_form" /\ form_num = 8 /\ Len(root_letters) >= 3) =>
        result = <<"alif", "kasra", root_letters[1], "sukun", "ta", "fatha",
                   root_letters[2], "fatha", root_letters[3], "fatha">>

\* a Form VIII of a root that begins with dal, a letter of the Form VIII
\* branch of the assimilation rules, has been generated
C23_Witness ==
    /\ gpc = "verb_form" /\ form_num = 8
    /\ root_letters = <<"dal", "ta", "ra">>
    /\ result = <<"alif", "kasra", "dal", "sukun", "ta", "fatha",
                  "ta", "fatha", "ra", "fatha">>

----------------------------------------------------------------------------
(* Claims about the preview report *)

\* the report a preview run of the current file has written
Report == fs[preview_file(script, input_path)]

PreviewReturned == ~apply_fixes /\ fpc = "returned" /\ outcome[idx] = "ok"

\* the concatenation of the field f of the groups, in the order written
RECURSIVE Listed(_, _)
Listed(groups, f) ==
    IF groups = <<>> THEN <<>> ELSE Head(groups)[f] \o Listed(Tail(groups), f)

RECURSIVE SumOfCounts(_)
SumOfCounts(distribution) ==
    IF distribution = <<>> THEN 0
    ELSE Head(distribution).count + SumOfCounts(Tail(distribution))

\* how often e occurs in the list
TimesIn(list, e) == Cardinality({n \in 1 .. Len(list) : list[n] = e})

\* the key a candidate is grouped by
GroupKey(e) == IF script = "fix_aorists" THEN e.intended_pattern ELSE e.form_number

\* C24: the groups of the preview report partition the candidate list by
\* inferred pattern (Form I) or form number (Forms II-XIII): every candidate
\* is listed in exactly one group, the entry numbers are 1..N in the order
\* written, and the counts of the distribution summary add up to N.
C24_ReportPartition ==
    PreviewReturned =>
        LET N == Len(entries)
            members == Listed(Report.groups, "members")
        IN /\ Report.kind = "report" /\ Report.total = N
           /\ Len(members) = N
           /\ \A n \in 1 .. N : TimesIn(members, entries[n]) = TimesIn(entries, entries[n])
           /\ \A g \in 1 .. Len(Report.groups) :
                 /\ Report.groups[g].members # <<>>
                 /\ \A m \in 1 .. Len(Report.groups[g].members) :
                       GroupKey(Report.groups[g].members[m]) = Report.groups[g].key
                 /\ \A h \in 1 .. Len(Report.groups) :
                       g # h => Report.groups[g].key # Report.groups[h].key
                 /\ Report.distribution[g].count = Len(Report.groups[g].members)
           /\ Listed(Report.groups, "numbers") = [n \in 1 .. N |-> n]
           /\ Len(Report.distribution) = Len(Report.groups)
           /\ SumOfCounts(Report.distribution) = N

\* a preview run has written a report of three candidates in two groups, a
\* group of two and a group of one
C24_Witness ==
    /\ PreviewReturned /\ Len(entries) = 3
    /\ Len(Report.groups) = 2
    /\ Len(Report.groups[1].members) = 2
    /\ Report.groups[2].numbers = <<3>>

----------------------------------------------------------------------------
(* Claims about stripping twice *)

\* C25: stripping a stripped text gives the stripped text again, in both
\* scripts.
C25_StripIdempotent ==
    gpc = "root" => remove_diacritics(script, clean_root) = clean_root

\* a text with two marks has been stripped to its two letters
C25_Witness ==
    /\ gpc = "root"
    /\ raw_text = <<"ba", "fatha", "ba", "kasra">>
    /\ clean_root = <<"ba", "ba">>

----------------------------------------------------------------------------
(* Claims about the replacement text and the order of the candidates *)

\* the blanks before and after the form text of an occurrence
RECURSIVE LeadingBlanks(_)
LeadingBlanks(val) ==
    IF val # <<>> /\ Head(val) = "sp" THEN <<"sp">> \o LeadingBlanks(Tail(val)) ELSE <<>>

RECURSIVE TrailingBlanks(_)
TrailingBlanks(val) ==
    IF val # <<>> /\ val[Len(val)] = "sp"
    THEN TrailingBlanks(SubSeq(val, 1, Len(val) - 1)) \o <<"sp">> ELSE <<>>

\* C26: for every candidate the replacement is the matched occurrence with
\* the form text replaced by the generated text: the marker, the markup and
\* the blanks are as they were, also when the current form text is empty.
C26_OnlyFormTextChanges ==
    Scanned =>
        \A n \in 1 .. Len(entries) :
            LET e == entries[n]
                replacement == new_form(e)
            IN /\ replacement.tag = e.full_match.tag
               /\ replacement.mark = e.full_match.mark
               /\ Strip(replacement.val) = e.correct
               /\ e.current # <<>> =>
                     replacement.val = LeadingBlanks(e.full_match.val) \o e.correct
                                       \o TrailingBlanks(e.full_match.val)

\* C27: for every form number 1 to 13 and every root-letter string of more
\* than three letters, the generated text is the text generated from the
\* first three letters of the string alone (Form I for every vowel pattern).
C27_FirstThreeOnly ==
    /\ (gpc = "verb_form" /\ form_num \in 1 .. 13 /\ Len(root_letters) > 3)
          => result = generate_verb_form(form_num, SubSeq(root_letters, 1, 3))
    /\ (gpc = "aorist" /\ Len(root_letters) > 3)
          => result = generate_correct_aorist(SubSeq(root_letters, 1, 3), pattern)

\* the span of the first is before the span of the second in the document
Earlier(s1, s2) == s1[1] < s2[1] \/ (s1[1] = s2[1] /\ s1[2] < s2[2])

\* the two accepted shapes of a Form I occurrence: 'aor.' before an orth
\* element, and an orth element with an empty origin attribute
FirstShape(e) == e.full_match.mark \in {"orig", "empty"}
SecondShape(e) == e.full_match.mark \in {"empty", "empty_attr"}

\* C28 as stated: of any two candidates the one whose matched span starts
\* earlier in the document is earlier in the list.
C28_DocumentOrder ==
    Scanned =>
        \A n, m \in 1 .. Len(entries) :
            Earlier(entries[n].span, entries[m].span) => n < m

\* C28: the candidates are listed by root scope in document order; inside a
\* root scope the Form II to XIII candidates are in document order, and the
\* Form I candidates are those of the first shape in document order followed
\* by those of the second shape in document order.
C28_ScopeThenShapeOrder ==
    Scanned =>
        /\ \A n, m \in 1 .. Len(entries) :
              entries[n].span[1] < entries[m].span[1] => n < m
        /\ script = "fix_verb_forms" =>
              \A n, m \in 1 .. Len(entries) :
                  Earlier(entries[n].span, entries[m].span) => n < m
        /\ script = "fix_aorists" =>
              \A i \in RootScopes :
                  \E c \in 0 .. Len(entries) :
                      /\ \A n \in CandidatesIn(i) :
                            IF n <= c THEN FirstShape(entries[n])
                                      ELSE SecondShape(entries[n])
                      /\ \A n, m \in CandidatesIn(i) :
                            ((n <= c <=> m <= c)
                               /\ entries[n].span[2] < entries[m].span[2]) => n < m
                      /\ \A n, m \in CandidatesIn(i) :
                            ((n <= c <=> m <= c) /\ n # m)
                               => entries[n].span # entries[m].span

\* a root scope whose second-shape occurrence is before a first-shape
\* occurrence in the document and after it in the list
C28_Witness ==
    /\ Scanned
    /\ script = "fix_aorists"
    /\ \E n, m \in 1 .. Len(entries) :
          /\ n < m
          /\ entries[n].span[1] = entries[m].span[1]
          /\ entries[n].span[2] > entries[m].span[2]
          /\ entries[n].full_match.mark = "orig"
          /\ entries[m].full_match.mark = "empty_attr"

\* the occurrences of the document that differ between the input and the
\* output of apply
ChangedSpans ==
    {sp \in UNION {{<<i, j>> : j \in 1 .. Len(xml_content[i].body)}
                      : i \in 1 .. Len(xml_content)} :
        OccAt(fixed_content, sp) # OccAt(xml_content, sp)}

\* C29: the fix count returned by apply is the number of candidates and the
\* number of occurrences whose text differs between input and output.
C29_FixCountIsChangedSpans ==
    Applied =>
        /\ fixes_made = Len(entries)
        /\ fixes_made = Cardinality(ChangedSpans)

\* C30: apply_assimilation_rules never changes the radicals: for every form
\* number and every root-letter string, a string of fewer than three letters
\* is returned unchanged and otherwise the first three letters of the result
\* are the first three letters of the string.
C30_RadicalsUnchanged ==
    gpc = "assimilated" =>
        IF Len(root_letters) < 3
        THEN result = root_letters
        ELSE /\ Len(result) >= 3
             /\ SubSeq(result, 1, 3) = SubSeq(root_letters, 1, 3)

\* a rule has applied: the result is not the string that was passed
C30_Witness ==
    /\ gpc = "assimilated"
    /\ form_num = 7
    /\ Len(root_letters) > 3
    /\ root_letters[1] = "mim"
    /\ result # root_letters

====
